---- MODULE Spec2Model ----
(***************************************************************************)
(* Model of the fund record store (create_sqlite_db_v2.py) and of the SQL  *)
(* facade (sqlite_server.py).                                              *)
(*                                                                         *)
(* Text is a sequence of one-character strings, so that str.replace, LIKE  *)
(* and split(";") are computed on the characters.  The Chinese literals of *)
(* the source are written in pinyin: "shi" for the flag value meaning yes, *)
(* "fou" for the one meaning no.  The dictionary keys and the columns are  *)
(* named as in the specification's data model:                             *)
(*   code (ji jin dai ma), shortName (ji jin jian cheng),                  *)
(*   shortNamePinyin (ji jin jian pin), unitNetValue (dan wei jing zhi),   *)
(*   dailyGrowthRate (ri zeng zhang lv), purchasable (shi fou ke gou),     *)
(*   discount (zhe kou), createdAt (chuang jian shi jian).                 *)
(* The other sixteen optional columns go through clean_empty_value exactly *)
(* as shortNamePinyin does (cumulative net value: as unitNetValue) and are *)
(* left out; so is the AUTOINCREMENT ID, which no statement of the loader  *)
(* reads or binds.                                                         *)
(***************************************************************************)
EXTENDS Naturals, Sequences, FiniteSets

VARIABLES
    db,      \* committed rows of the fund table in fund_data.db
    clock,   \* CURRENT_TIMESTAMP of the database engine
    file,    \* lines of fund_rank.jsonl
    pos,     \* number of lines main() has consumed
    pc,      \* where main() is: "load", "shell", "exited", "aborted", "crashed"
    last     \* the last call made and what it gave back

vars == <<db, clock, file, pos, pc, last>>

----------------------------------------------------------------------------
(* Bounds of the model. *)
MaxClock == 1
MaxLines == 3
MaxQueryLen == 3

----------------------------------------------------------------------------
(* Python values: None, str, int, list.  NoKey marks a key that is not in  *)
(* the dictionary; it is never a value.                                    *)
PyNone == [t |-> "none", s |-> <<>>, n |-> 0]
Str(s) == [t |-> "str", s |-> s, n |-> 0]
Int(n) == [t |-> "int", s |-> <<>>, n |-> n]
List(n) == [t |-> "list", s |-> <<>>, n |-> n]
NoKey == [t |-> "nokey", s |-> <<>>, n |-> 0]

sNone == <<"N", "o", "n", "e">>
SHI == <<"s", "h", "i">>
FOU == <<"f", "o", "u">>

(* bool(value) *)
Truthy(value) ==
    CASE value.t = "none" -> FALSE
      [] value.t = "str" -> value.s # <<>>
      [] OTHER -> value.n # 0

(* The test shared by all four cleaning functions:                         *)
(* not value or value == '' or value == 'None' or value is None            *)
IsBlank(value) ==
    \/ ~Truthy(value)
    \/ value = Str(<<>>)
    \/ value = Str(sNone)
    \/ value = PyNone

clean_empty_value(value) == IF IsBlank(value) THEN PyNone ELSE value

(* Faulty variant: the flag is cleaned like any other optional field. *)
clean_int_to_boolean_as_empty(value, default) ==
    IF IsBlank(value) THEN PyNone ELSE value

clean_int_to_boolean(value, default) == IF IsBlank(value) THEN default ELSE Str(SHI)

(* str.replace(old, '') for a one-character old *)
Replace(s, old) == SelectSeq(s, LAMBDA c : c # old)

(* dict.get(key, default); fund_data.get(key) is Get(fund_data, key, PyNone) *)
Get(d, key, default) == IF key \in DOMAIN d THEN d[key] ELSE default

(* A result or an exception. *)
Ok(v) == [exc |-> FALSE, v |-> v]
Raise == [exc |-> TRUE, v |-> PyNone]

(* fund_data.get(key, '').replace('%', ''): AttributeError when the value  *)
(* is not a str (None, a number, a list).                                  *)
NetValueArg(d, key) ==
    LET value == Get(d, key, Str(<<>>))
    IN  IF value.t # "str" THEN Raise
        ELSE Ok(clean_empty_value(Str(Replace(value.s, "%"))))

----------------------------------------------------------------------------
(* The fund table: INSERT OR REPLACE with the schema's constraints. *)

DataColumns ==
    {"code", "shortName", "shortNamePinyin", "unitNetValue",
     "dailyGrowthRate", "purchasable", "discount"}

Digits == <<"0", "1", "2", "3", "4", "5", "6", "7", "8", "9">>

RECURSIVE IntToStr(_)
IntToStr(n) ==
    IF n < 10 THEN <<Digits[n + 1]>>
    ELSE IntToStr(n \div 10) \o <<Digits[(n % 10) + 1]>>

(* A TEXT column stores a bound integer as its decimal text. *)
TextAffinity(value) ==
    IF value.t = "int" THEN Str(IntToStr(value.n)) ELSE value

(* What one statement does to the table: it fails as a whole, leaving the  *)
(* table as it was, or succeeds.                                           *)
StmtFail(table) == [ok |-> FALSE, table |-> table]
StmtOk(table) == [ok |-> TRUE, table |-> table]

NewRow(params, now) ==
    [code |-> TextAffinity(params.code),
     shortName |-> TextAffinity(params.shortName),
     shortNamePinyin |-> TextAffinity(params.shortNamePinyin),
     unitNetValue |-> TextAffinity(params.unitNetValue),
     dailyGrowthRate |-> TextAffinity(params.dailyGrowthRate),
     purchasable |-> TextAffinity(params.purchasable),
     discount |-> TextAffinity(params.discount),
     createdAt |-> now]

(* cursor.execute('INSERT OR REPLACE INTO ... VALUES (?, ...)', params):   *)
(* a list cannot be bound; code and shortName are NOT NULL; the row with   *)
(* the same code (UNIQUE) is deleted and the new row, with createdAt       *)
(* DEFAULT CURRENT_TIMESTAMP, takes its place.                              *)
ExecInsertOrReplace(table, params, now) ==
    IF \E c \in DataColumns : params[c].t = "list" THEN StmtFail(table)
    ELSE LET row == NewRow(params, now)
         IN  IF row.code = PyNone \/ row.shortName = PyNone
             THEN StmtFail(table)
             ELSE StmtOk({r \in table : r.code # row.code} \cup {row})

(* A parsed JSON line: an object (a dict) or any other JSON value. *)
Dict(items) == [isDict |-> TRUE, items |-> items]
NotADict == [isDict |-> FALSE, items |-> <<>>]

(* The parameter tuple of the INSERT, lines 108-133; line 97 already calls *)
(* fund_data.get, which a non-dict does not have.                          *)
InsertArgs(fund_data) ==
    IF ~fund_data.isDict THEN Raise
    ELSE LET d == fund_data.items
             nv == NetValueArg(d, "unitNetValue")
         IN  IF nv.exc THEN Raise
             ELSE Ok([code |-> Get(d, "code", PyNone),
                      shortName |-> Get(d, "shortName", PyNone),
                      shortNamePinyin |->
                          clean_empty_value(Get(d, "shortNamePinyin", PyNone)),
                      unitNetValue |-> nv.v,
                      dailyGrowthRate |->
                          clean_empty_value(Get(d, "dailyGrowthRate", PyNone)),
                      purchasable |->
                          clean_int_to_boolean(Get(d, "purchasable", PyNone), Str(FOU)),
                      discount |->
                          clean_int_to_boolean(Get(d, "discount", PyNone), Str(FOU))])

(* Outcome of a call: the committed table, whether the row was written,    *)
(* whether the call raised to its caller.                                  *)
Outcome(table, ok, raised) == [table |-> table, ok |-> ok, raised |-> raised]

(* Faulty variant: the parameter tuple is built before the try block. *)
insert_fund_data_args_outside_try(table, fund_data, now) ==
    LET args == InsertArgs(fund_data)
    IN  IF args.exc THEN Outcome(table, FALSE, TRUE)
        ELSE LET ex == ExecInsertOrReplace(table, args.v, now)
             IN  IF ex.ok THEN Outcome(ex.table, TRUE, FALSE)
                 ELSE Outcome(table, FALSE, FALSE)

(* insert_fund_data: try: execute, commit; except Exception: rollback;     *)
(* finally: close.                                                         *)
insert_fund_data(table, fund_data, now) ==
    LET args == InsertArgs(fund_data)
    IN  IF args.exc THEN Outcome(table, FALSE, FALSE)
        ELSE LET ex == ExecInsertOrReplace(table, args.v, now)
             IN  IF ex.ok THEN Outcome(ex.table, TRUE, FALSE)
                 ELSE Outcome(table, FALSE, FALSE)

----------------------------------------------------------------------------
(* Text comparison of the engine: BINARY order for ORDER BY and =, and     *)
(* LIKE, which ignores the case of ASCII letters.                          *)

UpperLetters ==
    <<"A", "B", "C", "D", "E", "F", "G", "H", "I", "J", "K", "L", "M",
      "N", "O", "P", "Q", "R", "S", "T", "U", "V", "W", "X", "Y", "Z">>
LowerLetters ==
    <<"a", "b", "c", "d", "e", "f", "g", "h", "i", "j", "k", "l", "m",
      "n", "o", "p", "q", "r", "s", "t", "u", "v", "w", "x", "y", "z">>
Alphabet == <<" ", "%">> \o Digits \o <<";">> \o UpperLetters \o LowerLetters

IndexOf(seq, c) == CHOOSE i \in 1..Len(seq) : seq[i] = c
InSeq(seq, c) == \E i \in 1..Len(seq) : seq[i] = c

LowerChar(c) == IF InSeq(UpperLetters, c) THEN LowerLetters[IndexOf(UpperLetters, c)] ELSE c
Lower(s) == [i \in 1..Len(s) |-> LowerChar(s[i])]

RECURSIVE StrLess(_, _)
StrLess(a, b) ==
    IF b = <<>> THEN FALSE
    ELSE IF a = <<>> THEN TRUE
    ELSE IF Head(a) = Head(b) THEN StrLess(Tail(a), Tail(b))
    ELSE IndexOf(Alphabet, Head(a)) < IndexOf(Alphabet, Head(b))

(* column LIKE '%keyword%', for a keyword of letters and digits *)
Like(value, keyword) ==
    /\ value # PyNone
    /\ \E i \in 1..(Len(value.s) + 1) :
           /\ i + Len(keyword) - 1 <= Len(value.s)
           /\ SubSeq(Lower(value.s), i, i + Len(keyword) - 1) = Lower(keyword)

(* The rows of a result set ORDER BY code, as fetchall() lists them. *)
RECURSIVE OrderByCode(_)
OrderByCode(rows) ==
    IF rows = {} THEN <<>>
    ELSE LET first == CHOOSE r \in rows :
                          \A q \in rows : ~StrLess(q.code.s, r.code.s)
         IN  <<first>> \o OrderByCode(rows \ {first})

(* Faulty variant: the exact lookup matches by LIKE. *)
query_fund_data_like(table, fund_code, fund_name_keyword) ==
    IF Truthy(fund_code)
    THEN OrderByCode({r \in table : Like(r.code, TextAffinity(fund_code).s)})
    ELSE IF Truthy(fund_name_keyword)
    THEN OrderByCode({r \in table : Like(r.shortName, fund_name_keyword.s)})
    ELSE OrderByCode(table)

(* query_fund_data: the rows it returns (the column names are fixed). *)
query_fund_data(table, fund_code, fund_name_keyword) ==
    IF Truthy(fund_code)
    THEN OrderByCode({r \in table : r.code = TextAffinity(fund_code)})
    ELSE IF Truthy(fund_name_keyword)
    THEN OrderByCode({r \in table : Like(r.shortName, fund_name_keyword.s)})
    ELSE OrderByCode(table)

(* fuzzy_search_funds: five columns of the rows matching on name, pinyin   *)
(* or code, ORDER BY code.                                                 *)
Project(r) ==
    [code |-> r.code, shortName |-> r.shortName,
     shortNamePinyin |-> r.shortNamePinyin,
     unitNetValue |-> r.unitNetValue, dailyGrowthRate |-> r.dailyGrowthRate]

fuzzy_search_funds(table, keyword) ==
    LET hits == {r \in table : \/ Like(r.shortName, keyword)
                               \/ Like(r.shortNamePinyin, keyword)
                               \/ Like(r.code, keyword)}
        sorted == OrderByCode(hits)
    IN  [i \in 1..Len(sorted) |-> Project(sorted[i])]

----------------------------------------------------------------------------
(* Direct use of the Record Writer and of the exact lookup: any sequence   *)
(* of insert_fund_data and query_fund_data(fund_code=...) calls on the     *)
(* database create_fund_database() made.                                   *)

OptionalKeys ==
    {"shortNamePinyin", "unitNetValue", "dailyGrowthRate", "purchasable", "discount"}

(* Source values tried for each optional key. *)
OptDomain(k) ==
    CASE k = "shortNamePinyin" ->
           {PyNone, Str(<<>>), Str(sNone), Str(<<"p">>), Str(<<"1", "%">>),
            Int(0), Int(5), List(1)}
      [] k = "unitNetValue" ->
           {PyNone, Str(<<>>), Str(sNone), Str(<<"1", "%">>), Str(<<"%">>),
            Int(5), List(1)}
      [] k = "dailyGrowthRate" -> {PyNone, Str(<<"2", "%">>)}
      [] k = "purchasable" ->
           {PyNone, Str(<<>>), Str(sNone), Str(<<"1">>), Str(<<"0">>),
            Int(0), Int(1), List(1)}
      [] OTHER -> {PyNone, Str(<<"1">>)}

CodeVals == {NoKey, PyNone, Str(<<"A">>), Str(<<"A", "B">>)}
NameVals == {NoKey, Str(<<"F", "a">>)}

(* A record with at most one optional key: every field is cleaned on its   *)
(* own, so the fields are varied one at a time.                            *)
FundDict(c, n, k, v) ==
    LET keys == (IF c = NoKey THEN {} ELSE {"code"})
                \cup (IF n = NoKey THEN {} ELSE {"shortName"})
                \cup (IF v = NoKey THEN {} ELSE {k})
    IN  Dict([key \in keys |->
                 IF key = "code" THEN c ELSE IF key = "shortName" THEN n ELSE v])

OptChoices ==
    {<<"discount", NoKey>>}
    \cup {<<k, v>> : k \in OptionalKeys, v \in UNION {OptDomain(j) : j \in OptionalKeys}}

WriterInputs ==
    {FundDict(c, n, kv[1], kv[2]) :
        c \in CodeVals, n \in NameVals,
        kv \in {x \in OptChoices : x[2] = NoKey \/ x[2] \in OptDomain(x[1])}}
    \cup {NotADict}

QueryCodes == {PyNone, Str(<<>>), Str(<<"A">>), Str(<<"A", "B">>), Str(<<"C">>)}

(* Whether the source value of a key is missing, null, '' or 'None'. *)
SourceBlank(fund_data, k) ==
    LET value == Get(fund_data.items, k, PyNone)
    IN  value = PyNone \/ value = Str(<<>>) \/ value = Str(sNone)

NoCall ==
    [op |-> "none", code |-> PyNone, blank |-> {}, ok |-> FALSE,
     raised |-> FALSE, rows |-> <<>>]

(* What is kept of an insert_fund_data call: of a call that wrote its row, *)
(* the code and the optional keys whose source value was blank.            *)
InsertCall(fund_data, o) ==
    [op |-> "insert",
     code |-> IF o.ok THEN TextAffinity(fund_data.items.code) ELSE PyNone,
     blank |-> IF o.ok THEN {k \in OptionalKeys : SourceBlank(fund_data, k)} ELSE {},
     ok |-> o.ok, raised |-> o.raised, rows |-> <<>>]

IsInsertOf(fund_data) ==
    LET o == insert_fund_data(db, fund_data, clock)
    IN  /\ db' = o.table
        /\ last' = InsertCall(fund_data, o)

CallInsert ==
    /\ pc = "writer"
    /\ \E fund_data \in WriterInputs : IsInsertOf(fund_data)
    /\ UNCHANGED <<clock, file, pos, pc>>

CallQuery ==
    /\ pc = "writer"
    /\ \E fund_code \in QueryCodes :
           last' = [op |-> "query", code |-> fund_code, blank |-> {}, ok |-> TRUE,
                    raised |-> FALSE, rows |-> query_fund_data(db, fund_code, PyNone)]
    /\ UNCHANGED <<db, clock, file, pos, pc>>

(* A second of wall-clock time passes. *)
Tick ==
    /\ clock < MaxClock
    /\ clock' = clock + 1
    /\ UNCHANGED <<db, file, pos, pc, last>>

InitWriter ==
    /\ db = {}
    /\ clock = 0
    /\ file = <<>>
    /\ pos = 0
    /\ pc = "writer"
    /\ last = NoCall

NextWriter == CallInsert \/ CallQuery \/ Tick

SpecWriter == InitWriter /\ [][NextWriter]_vars

----------------------------------------------------------------------------
(* Properties of the Record Writer and of the exact lookup (SpecWriter). *)

(* A record as the data model describes it: a code and a short name that   *)
(* are text, every optional value text or null.                            *)
WellTyped(fund_data) ==
    /\ fund_data.isDict
    /\ {"code", "shortName"} \subseteq DOMAIN fund_data.items
    /\ fund_data.items.code.t = "str"
    /\ fund_data.items.shortName.t = "str"
    /\ \A k \in OptionalKeys \cap DOMAIN fund_data.items :
           fund_data.items[k].t \in {"str", "none"}

(* The normalized values of a well-typed record, as the data model states  *)
(* them: blank optionals are null, net values lose their percent signs,    *)
(* flags resolve to one of the two flag strings.                           *)
Normalized(fund_data) ==
    LET d == fund_data.items
        nv == Get(d, "unitNetValue", PyNone)
    IN  [code |-> d.code,
         shortName |-> d.shortName,
         shortNamePinyin |-> clean_empty_value(Get(d, "shortNamePinyin", PyNone)),
         unitNetValue |->
             IF nv = PyNone THEN PyNone
             ELSE clean_empty_value(Str(Replace(nv.s, "%"))),
         dailyGrowthRate |-> clean_empty_value(Get(d, "dailyGrowthRate", PyNone)),
         purchasable |-> IF SourceBlank(fund_data, "purchasable")
                         THEN Str(FOU) ELSE Str(SHI),
         discount |-> IF SourceBlank(fund_data, "discount")
                      THEN Str(FOU) ELSE Str(SHI)]

DataOf(r) == [c \in DataColumns |-> r[c]]

C5_FailureAbsorbed ==
    [][(last'.op = "insert" /\ ~last'.ok) => (db' = db /\ ~last'.raised)]_vars

C5_Witness == last.op = "insert" /\ ~last.ok /\ ~last.raised /\ db # {}

(* C6: no Record Writer call changes the createdAt of a row that exists.   *)
C6_CreatedAtImmutable ==
    [][\A r \in db : \A q \in db' : q.code = r.code => q.createdAt = r.createdAt]_vars

(* C7: for a well-typed record, the call stores a row in which every       *)
(* optional field whose source value is missing, null, '' or 'None' is     *)
(* null; the net-value field is one of them.                               *)
NullableKeys == {"shortNamePinyin", "unitNetValue", "dailyGrowthRate"}

C7_BlankStoredAsNull ==
    [][\A fund_data \in WriterInputs :
          (WellTyped(fund_data) /\ IsInsertOf(fund_data))
          => \E r \in db' :
                /\ r.code = fund_data.items.code
                /\ \A k \in NullableKeys :
                       SourceBlank(fund_data, k) => r[k] = PyNone]_vars

(* C9 as stated: for every code value the exact lookup returns at most one *)
(* row, with that code, and none for a code that is not stored.            *)
C9_AnyCodeValue ==
    last.op = "query" =>
        /\ Len(last.rows) <= 1
        /\ \A i \in 1..Len(last.rows) : last.rows[i].code = last.code
        /\ (~\E r \in db : r.code = last.code) => last.rows = <<>>

(* C9, amended: for every non-empty code the exact lookup returns at most  *)
(* one row, with that code, none for a code that is not stored, and leaves *)
(* the store unchanged; an empty or null code lists every row instead.     *)
C9_ExactLookup ==
    [][last'.op = "query" =>
          /\ db' = db
          /\ ~last'.raised
          /\ Truthy(last'.code) =>
                 /\ Len(last'.rows) <= 1
                 /\ \A i \in 1..Len(last'.rows) : last'.rows[i].code = last'.code
                 /\ (~\E r \in db' : r.code = last'.code) => last'.rows = <<>>
                 /\ (\E r \in db' : r.code = last'.code) => Len(last'.rows) = 1
          /\ ~Truthy(last'.code) =>
                 {last'.rows[i] : i \in 1..Len(last'.rows)} = db']_vars

C9_Witness ==
    /\ last.op = "query"
    /\ Truthy(last.code)
    /\ Len(last.rows) = 1
    /\ Cardinality(db) = 2

(* C10: every stored row has purchasable and discount equal to "shi" or    *)
(* "fou", never null, and "fou" when the source value was blank.           *)
FlagValues == {Str(SHI), Str(FOU)}

C10_FlagsTwoValued ==
    /\ \A r \in db : r.purchasable \in FlagValues /\ r.discount \in FlagValues
    /\ (last.op = "insert" /\ last.ok) =>
           \A r \in db : r.code = last.code =>
               /\ "purchasable" \in last.blank => r.purchasable = Str(FOU)
               /\ "discount" \in last.blank => r.discount = Str(FOU)

C10_Witness ==
    /\ last.op = "insert" /\ last.ok
    /\ "discount" \in last.blank
    /\ \E r \in db : r.code = last.code /\ r.purchasable = Str(SHI)
                                        /\ r.discount = Str(FOU)
    /\ \E r \in db : r.code # last.code

----------------------------------------------------------------------------
(* main(): create the table, load fund_rank.jsonl line by line, then run   *)
(* the interactive shell.                                                  *)

(* A line of the file: malformed, or the JSON value it holds. *)
Malformed == [wellformed |-> FALSE, value |-> NotADict]
Json(value) == [wellformed |-> TRUE, value |-> value]

(* json.loads(line): JSONDecodeError on a malformed (or blank) line *)
json_loads(line) == IF line.wellformed THEN Ok(line.value) ELSE Raise

RecA == FundDict(Str(<<"A">>), Str(<<"F", "a">>), "unitNetValue", Str(<<"1", "%">>))
RecAB == FundDict(Str(<<"A", "B">>), Str(<<"F", "a">>), "shortNamePinyin", Str(<<"p">>))
RecPlain == FundDict(Str(<<"A">>), Str(<<"F", "a">>), "discount", NoKey)

LineKinds == {Malformed, Json(RecA), Json(RecAB), Json(RecPlain), Json(NotADict)}

RECURSIVE SeqsUpTo(_, _)
SeqsUpTo(S, n) ==
    IF n = 0 THEN {<<>>}
    ELSE LET shorter == SeqsUpTo(S, n - 1)
         IN  shorter \cup {Append(q, x) : q \in shorter, x \in S}

Files == SeqsUpTo(LineKinds, MaxLines)

(* str.strip() of the spaces at both ends *)
RECURSIVE LStrip(_)
LStrip(s) == IF s # <<>> /\ Head(s) = " " THEN LStrip(Tail(s)) ELSE s
RECURSIVE RStrip(_)
RStrip(s) ==
    IF s # <<>> /\ s[Len(s)] = " " THEN RStrip(SubSeq(s, 1, Len(s) - 1)) ELSE s
Strip(s) == RStrip(LStrip(s))

(* f"{value:.2%}" and f"{value:.4f}": ValueError for a str, and the TEXT   *)
(* columns only ever give back str or None.                                *)
FormatRaises(value) == value # PyNone /\ value.t = "str"

(* display_search_results: whether it raises *)
display_search_results(results) ==
    \E i \in 1..Len(results) :
        \/ FormatRaises(results[i].dailyGrowthRate)
        \/ FormatRaises(results[i].unitNetValue)

(* What the user types at the prompts. *)
Choices == {<<"1">>, <<"2">>, <<"3">>, <<"4">>, <<" ", "4">>, <<"9">>, <<>>}
Typed == {<<>>, <<"a">>, <<"b">>, <<"p">>, <<"z">>, <<"A">>, <<"Y">>, <<"n", " ">>}

ShellCall(op, choice, matches, shown) ==
    [op |-> op, choice |-> choice, matches |-> matches, shown |-> shown]

(* One line of the file: json.loads, then insert_fund_data. *)
LoadLine ==
    /\ pc = "load"
    /\ pos < Len(file)
    /\ LET parsed == json_loads(file[pos + 1])
       IN  IF parsed.exc
           THEN /\ pc' = "aborted"
                /\ UNCHANGED <<db, pos>>
           ELSE LET o == insert_fund_data(db, parsed.v, clock)
                IN  /\ db' = o.table
                    /\ pos' = pos + 1
                    /\ pc' = IF o.raised THEN "aborted" ELSE "load"
    /\ last' = ShellCall("load", <<>>, 0, 0)
    /\ UNCHANGED <<clock, file>>

(* The file is exhausted: search_funds_interactive() starts. *)
EnterShell ==
    /\ pc = "load"
    /\ pos = Len(file)
    /\ pc' = "shell"
    /\ UNCHANGED <<db, clock, file, pos, last>>

(* Number of rows display_fund_data is given; it prints and never raises. *)
Shown(fund_code) == Len(query_fund_data(db, fund_code, PyNone))

(* One pass of the while True loop of search_funds_interactive: the menu   *)
(* choice and the further inputs its branch asks for.                      *)
ShellPass ==
    /\ pc = "shell"
    /\ \E input1 \in Choices, input2 \in Typed, input3 \in Typed :
           LET choice == Strip(input1)
               text == Strip(input2)
               results == fuzzy_search_funds(db, text)
               answer == Strip(input3)
           IN  CASE choice = <<"1">> ->
                      /\ pc' = "shell"
                      /\ last' = ShellCall("shell", choice, 0,
                                    IF text # <<>> THEN Shown(Str(text)) ELSE 0)
                 [] choice = <<"2">> /\ text = <<>> ->
                      /\ pc' = "shell"
                      /\ last' = ShellCall("shell", choice, 0, 0)
                 [] choice = <<"2">> /\ text # <<>> ->
                      IF display_search_results(results)
                      THEN /\ pc' = "crashed"
                           /\ last' = ShellCall("shell", choice, Len(results), 0)
                      ELSE /\ pc' = "shell"
                           /\ last' = ShellCall("shell", choice, Len(results),
                                  IF Len(results) = 1
                                  THEN IF Lower(answer) = <<"y">>
                                       THEN Shown(results[1].code) ELSE 0
                                  ELSE IF Len(results) > 1 /\ answer # <<>>
                                       THEN Shown(Str(answer)) ELSE 0)
                 [] choice = <<"3">> ->
                      /\ pc' = "shell"
                      /\ last' = ShellCall("shell", choice, 0, Shown(PyNone))
                 [] choice = <<"4">> ->
                      /\ pc' = "exited"
                      /\ last' = ShellCall("shell", choice, 0, 0)
                 [] OTHER ->
                      /\ pc' = "shell"
                      /\ last' = ShellCall("shell", choice, 0, 0)
    /\ UNCHANGED <<db, clock, file, pos>>

InitMain ==
    /\ db = {}
    /\ clock = 0
    /\ file \in Files
    /\ pos = 0
    /\ pc = "load"
    /\ last = ShellCall("none", <<>>, 0, 0)

NextMain == LoadLine \/ EnterShell \/ ShellPass \/ Tick

SpecMain == InitMain /\ [][NextMain]_vars

(* C2: for a file of one malformed line and two valid lines, in any order, *)
(* the load runs to the end of the file and exactly the two valid records  *)
(* are stored.                                                             *)
OneBadTwoValid ==
    /\ Len(file) = 3
    /\ {file[i] : i \in 1..3} = {Malformed, Json(RecA), Json(RecAB)}

C2_LoadSkipsMalformed ==
    (OneBadTwoValid /\ pc # "load") =>
        /\ pc # "aborted"
        /\ {DataOf(r) : r \in db} = {Normalized(RecA), Normalized(RecAB)}

(* C8: a pass of the shell loop ends the loop only on the choice '4'; every *)
(* other pass returns to the menu.                                         *)
C8_LoopUntilExit ==
    [][pc = "shell" =>
          \/ pc' = "shell"
          \/ pc' = "exited" /\ last'.choice = <<"4">>]_vars

----------------------------------------------------------------------------
(* The SQL facade: execute_sql on the same database file, at one instant   *)
(* (the facade's results do not depend on the time).  A statement is       *)
(* written as one letter: "I" stands for the bare                          *)
(*   INSERT INTO fund table (code, shortName) VALUES ('A', 'Fa'),          *)
(* which fails on the UNIQUE code when the row exists, and "S" for         *)
(*   SELECT code FROM fund table;                                          *)
(* any other text is not SQL and fails with a syntax error.                *)

(* str.split(sep): the pieces between the separators, empty ones included *)
RECURSIVE Split(_, _)
Split(s, sep) ==
    IF ~InSeq(s, sep) THEN <<s>>
    ELSE LET i == CHOOSE k \in 1..Len(s) :
                      s[k] = sep /\ \A j \in 1..(k - 1) : s[j] # sep
         IN  <<SubSeq(s, 1, i - 1)>> \o Split(SubSeq(s, i + 1, Len(s)), sep)

(* [stmt.strip() for stmt in query.split(";") if stmt.strip()] *)
Statements(query) ==
    LET pieces == Split(query, ";")
        kept == SelectSeq(pieces, LAMBDA piece : Strip(piece) # <<>>)
    IN  [i \in 1..Len(kept) |-> Strip(kept[i])]

SqlRow(now) ==
    [code |-> Str(<<"A">>), shortName |-> Str(<<"F", "a">>),
     shortNamePinyin |-> PyNone, unitNetValue |-> PyNone,
     dailyGrowthRate |-> PyNone, purchasable |-> PyNone, discount |-> PyNone,
     createdAt |-> now]

(* One entry of results: kind "csv" (n data rows under the header), "ok"   *)
(* (the success message with rowcount n) or "err" (the inline error        *)
(* message, which quotes the statement).                                   *)
Segment(kind, statement, n) == [kind |-> kind, statement |-> statement, n |-> n]
Separator == Segment("---", <<>>, 0)

(* "\n---\n".join(results) *)
RECURSIVE Join(_)
Join(results) ==
    IF Len(results) <= 1 THEN results
    ELSE <<Head(results), Separator>> \o Join(Tail(results))

(* cursor.execute(statement) and the branch on cursor.description: the      *)
(* table after the statement (committed when it returns no result set) and *)
(* the entry appended to results.                                          *)
RunStatement(table, statement, now) ==
    CASE statement = <<"S">> ->
           [table |-> table, segment |-> Segment("csv", statement, Cardinality(table))]
      [] statement = <<"I">> ->
           IF \E r \in table : r.code = SqlRow(now).code
           THEN [table |-> table, segment |-> Segment("err", statement, 0)]
           ELSE [table |-> table \cup {SqlRow(now)},
                 segment |-> Segment("ok", statement, 1)]
      [] OTHER ->
           [table |-> table, segment |-> Segment("err", statement, 0)]

(* The state of the for loop: the table, results, and the statements given *)
(* to cursor.execute so far.                                               *)
Loop(table, results, attempted) ==
    [table |-> table, results |-> results, attempted |-> attempted]

(* Faulty variant: the first failing statement ends the loop. *)
RECURSIVE RunStatementsUntilError(_, _, _)
RunStatementsUntilError(statements, st, now) ==
    IF statements = <<>> THEN st
    ELSE LET r == RunStatement(st.table, Head(statements), now)
             next == Loop(r.table, Append(st.results, r.segment),
                          Append(st.attempted, Head(statements)))
         IN  IF r.segment.kind = "err" THEN next
             ELSE RunStatementsUntilError(Tail(statements), next, now)

(* for statement in statements: try ... except Exception: append the error *)
RECURSIVE RunStatements(_, _, _)
RunStatements(statements, st, now) ==
    IF statements = <<>> THEN st
    ELSE LET r == RunStatement(st.table, Head(statements), now)
         IN  RunStatements(Tail(statements),
                           Loop(r.table, Append(st.results, r.segment),
                                Append(st.attempted, Head(statements))),
                           now)

(* The process environment of a call: whether SQLITE_DB_PATH is relative,  *)
(* whether os.getcwd() works, whether the database directory exists,       *)
(* whether os.makedirs can create it, whether sqlite3.connect can open.    *)
Env(relative, cwdOk, dirExists, mkdirOk, canOpen) ==
    [relative |-> relative, cwdOk |-> cwdOk, dirExists |-> dirExists,
     mkdirOk |-> mkdirOk, canOpen |-> canOpen]

Envs ==
    {Env(TRUE, TRUE, TRUE, TRUE, TRUE),      \* the default path, all well
     Env(TRUE, FALSE, TRUE, TRUE, TRUE),     \* the working directory is gone
     Env(FALSE, TRUE, FALSE, TRUE, TRUE),    \* the directory is created
     Env(FALSE, TRUE, FALSE, FALSE, FALSE),  \* the directory cannot be created
     Env(FALSE, TRUE, TRUE, TRUE, FALSE)}    \* the file cannot be opened

(* What a call gives: the table, whether it raised, the returned text (a   *)
(* sequence of segments and separators) and the statements attempted.      *)
SqlResult(table, raised, text, attempted) ==
    [table |-> table, raised |-> raised, text |-> text, attempted |-> attempted]

FatalText == <<Segment("fatal", <<>>, 0)>>

(* Faulty variant: sqlite3.connect is called before the try block. *)
execute_sql_connect_outside_try(table, query, env, now) ==
    IF env.relative /\ ~env.cwdOk THEN SqlResult(table, TRUE, <<>>, <<>>)
    ELSE IF ~env.dirExists /\ ~env.mkdirOk THEN SqlResult(table, TRUE, <<>>, <<>>)
    ELSE IF ~env.canOpen THEN SqlResult(table, TRUE, <<>>, <<>>)
    ELSE LET st == RunStatements(Statements(query), Loop(table, <<>>, <<>>), now)
         IN  SqlResult(st.table, FALSE, Join(st.results), st.attempted)

(* execute_sql, which is execute_sql_internal: get_db_config() and the     *)
(* os.makedirs of the database directory run before the try block; the     *)
(* connection and the statement loop run inside it.                        *)
execute_sql(table, query, env, now) ==
    IF env.relative /\ ~env.cwdOk THEN SqlResult(table, TRUE, <<>>, <<>>)
    ELSE IF ~env.dirExists /\ ~env.mkdirOk THEN SqlResult(table, TRUE, <<>>, <<>>)
    ELSE IF ~env.canOpen THEN SqlResult(table, FALSE, FatalText, <<>>)
    ELSE LET st == RunStatements(Statements(query), Loop(table, <<>>, <<>>), now)
         IN  SqlResult(st.table, FALSE, Join(st.results), st.attempted)

QueryChars == {"I", "S", ";", " "}
Queries == SeqsUpTo(QueryChars, MaxQueryLen)

SqlCall(query, env, r) ==
    [op |-> "execute_sql", query |-> query, env |-> env, raised |-> r.raised,
     text |-> r.text, attempted |-> r.attempted]

ExecuteSql ==
    /\ pc = "sql"
    /\ \E query \in Queries, env \in Envs :
           LET r == execute_sql(db, query, env, clock)
           IN  /\ db' = r.table
               /\ last' = SqlCall(query, env, r)
    /\ UNCHANGED <<clock, file, pos, pc>>

InitSql ==
    /\ db = {}
    /\ clock = 0
    /\ file = <<>>
    /\ pos = 0
    /\ pc = "sql"
    /\ last = [op |-> "none", query |-> <<>>, env |-> Env(TRUE, TRUE, TRUE, TRUE, TRUE),
               raised |-> FALSE, text |-> <<>>, attempted |-> <<>>]

NextSql == ExecuteSql

SpecSql == InitSql /\ [][NextSql]_vars

(* Whether statement i of the list fails when run on the table. *)
Fails(table, statements, i) ==
    \/ statements[i] \notin {<<"I">>, <<"S">>}
    \/ /\ statements[i] = <<"I">>
       /\ \/ \E r \in table : r.code = Str(<<"A">>)
          \/ \E j \in 1..(i - 1) : statements[j] = <<"I">>

====
